---- MODULE Spec2Model ----
(***************************************************************************)
(* Model of the data_engine crate: the candlestick classifier              *)
(* (candle_type.rs), the session resolver (session_type.rs), the session   *)
(* aggregator (session_data_agg.rs), the period aggregator                 *)
(* (week_day_data.rs) and the two table builders                           *)
(* (daily_session_aggregator.rs, weekly_table_aggregator.rs).              *)
(*                                                                         *)
(* Prices and volumes are integers (multiples of one price tick), so every *)
(* sum, maximum and comparison of the f64 code is exact.  A timestamp is   *)
(* the record of the fields of the string "YYYY<d>MM<d>DD<t>HH:00:00",     *)
(* where <d> is the date separator and <t> the date/time separator; string *)
(* comparison is modelled on that layout.                                  *)
(***************************************************************************)
EXTENDS Integers, Sequences, FiniteSets, TLC

VARIABLES
    pc,                      \* position of the driver
    data,                    \* the input slice of MarketData
    refs,                    \* aggregate_period: the sorted vector of references
    idx,                     \* aggregate_period: bars of refs consumed so far
    daily,                   \* aggregate_period: HashMap date -> PeriodAgg
    weekly,                  \* aggregate_period: HashMap "YYYY-MM-Wn" -> PeriodAgg
    weekday_map,             \* aggregate_period: HashMap "Mon".."Fri" -> PeriodAgg
    monthly,                 \* aggregate_period: HashMap "YYYY-MM" -> PeriodAgg
    monthly_iso_week_index,  \* (iso_year, month, iso_week) -> index
    iso_week_assigned_month, \* (iso_year, iso_week) -> owning month
    monthly_week_counter,    \* (iso_year, month) -> last index given
    period_out,              \* the four vectors aggregate_period returns
    aggs,                    \* aggregate_sessions: HashMap (date_part, session) -> SessionAgg
    sidx,                    \* aggregate_sessions: bars of data consumed so far
    session_out,             \* the vector aggregate_sessions returns
    daily_table,             \* the rows aggregate_daily_session_table returns
    weekly_table,            \* the rows aggregate_weekly_table returns
    candles,                 \* the vector classify_candles returns
    ohlc,                    \* classifier: the arguments of pattern_from_ohlc
    cfg,                     \* classifier: the thresholds and eps it is called with
    label                    \* classifier: the returned label

vars == <<pc, data, refs, idx, daily, weekly, weekday_map, monthly,
          monthly_iso_week_index, iso_week_assigned_month, monthly_week_counter,
          period_out, aggs, sidx, session_out, daily_table, weekly_table, candles,
          ohlc, cfg, label>>

(***************************************************************************)
(* Bounds                                                                  *)
(***************************************************************************)
MaxBars == 3

MaxTick == 3

\* longest input of classify_candles
MaxCandles == 2

(***************************************************************************)
(* Generic helpers                                                         *)
(***************************************************************************)
Max2(a, b) == IF a > b THEN a ELSE b

Min2(a, b) == IF a < b THEN a ELSE b

Abs(a) == IF a < 0 THEN -a ELSE a

EmptyMap == << >>

Put(map, k, v) == [x \in (DOMAIN map) \cup {k} |-> IF x = k THEN v ELSE map[x]]

SetMax(S) == CHOOSE x \in S : \A y \in S : y <= x

SetMin(S) == CHOOSE x \in S : \A y \in S : x <= y

SeqsUpTo(S, n) == UNION {[1..k -> S] : k \in 0..n}

Perms(n) == {f \in [1..n -> 1..n] : \A i, j \in 1..n : f[i] = f[j] => i = j}

Permute(s, f) == [i \in 1..Len(s) |-> s[f[i]]]

(***************************************************************************)
(* Lexicographic comparison of tuples of integers (string comparison of    *)
(* the fixed-width fields of a timestamp or key).                          *)
(***************************************************************************)
RECURSIVE LexLess(_, _)
LexLess(a, b) ==
    IF a = << >> THEN b # << >>
    ELSE IF b = << >> THEN FALSE
    ELSE IF Head(a) < Head(b) THEN TRUE
    ELSE IF Head(a) > Head(b) THEN FALSE
    ELSE LexLess(Tail(a), Tail(b))

(***************************************************************************)
(* Calendar (chrono: Datelike::weekday, Datelike::iso_week)                *)
(***************************************************************************)
IsLeap(y) == (y % 4 = 0 /\ y % 100 # 0) \/ y % 400 = 0

DaysBeforeMonth(y, m) ==
    LET cum == <<0, 31, 59, 90, 120, 151, 181, 212, 243, 273, 304, 334>>
    IN cum[m] + (IF m > 2 /\ IsLeap(y) THEN 1 ELSE 0)

DayOfYear(y, m, d) == DaysBeforeMonth(y, m) + d

\* days since 0000-12-31 in the proleptic Gregorian calendar (0001-01-01 = 1)
DaysFromCE(y, m, d) ==
    365 * (y - 1) + ((y - 1) \div 4) - ((y - 1) \div 100) + ((y - 1) \div 400)
        + DayOfYear(y, m, d)

\* 1 = Monday .. 7 = Sunday
WeekdayNum(y, m, d) == ((DaysFromCE(y, m, d) - 1) % 7) + 1

WeeksInYear(y) ==
    LET jan1 == WeekdayNum(y, 1, 1)
    IN IF jan1 = 4 \/ (jan1 = 3 /\ IsLeap(y)) THEN 53 ELSE 52

\* <<ISO week-year, ISO week number>>
IsoWeek(y, m, d) ==
    LET w == (DayOfYear(y, m, d) - WeekdayNum(y, m, d) + 10) \div 7
    IN IF w < 1 THEN <<y - 1, WeeksInYear(y - 1)>>
       ELSE IF w > WeeksInYear(y) THEN <<y + 1, 1>>
       ELSE <<y, w>>

(***************************************************************************)
(* Stable sort of sequence s, keys[i] being the key of s[i] (a tuple        *)
(* compared as a string), as slice::sort_by does: element i goes to the    *)
(* position given by the number of elements that are smaller, or equal and *)
(* earlier.                                                                *)
(***************************************************************************)
SortBy(keys, s) ==
    LET n == Len(s)
        rank(i) == 1 + Cardinality({j \in 1..n :
                          \/ LexLess(keys[j], keys[i])
                          \/ (keys[j] = keys[i] /\ j < i)})
    IN [p \in 1..n |-> s[CHOOSE i \in 1..n : rank(i) = p]]

SeqRange(s) == {s[i] : i \in 1..Len(s)}

Contains(s, x) == x \in SeqRange(s)

(***************************************************************************)
(* Timestamps                                                              *)
(***************************************************************************)
CharCode(c) ==
    CASE c = " " -> 32
      [] c = "-" -> 45
      [] c = "." -> 46
      [] c = "T" -> 84

\* the two characters of the hour token in string order; a token that is not a
\* number (hh = -1, written "xx") sorts after every number
HourKey(hh) == IF hh < 0 THEN 100 ELSE hh

\* the string "YYYY<dsep>MM<dsep>DD<tsep>HH:00:00" as the tuple of its fields;
\* tsep = "" is the date-only string "YYYY<dsep>MM<dsep>DD"
TsKey(ts) ==
    IF ts.tsep = "" THEN <<ts.y, CharCode(ts.dsep), ts.m, ts.d>>
    ELSE <<ts.y, CharCode(ts.dsep), ts.m, ts.d, CharCode(ts.tsep), HourKey(ts.hh)>>

\* String::cmp on two timestamps
TsLess(a, b) == LexLess(TsKey(a), TsKey(b))

\* the same instant written "YYYY-MM-DDTHH:00:00"
Canonical(ts) == [ts EXCEPT !.dsep = "-", !.tsep = "T"]

\* chronological order of two timestamps
Earlier(a, b) == TsLess(Canonical(a), Canonical(b))

NoneDT == [none |-> TRUE]

\* the parser of week_day_data.rs: every format is a NaiveDateTime format, so
\* the string needs a time part with an hour of 00..23
parse_ts_to_naive(ts) ==
    IF ts.dsep \in {"-", "."} /\ ts.tsep \in {"T", " "} /\ ts.hh \in 0..23
    THEN [year |-> ts.y, month |-> ts.m, day |-> ts.d, hour |-> ts.hh]
    ELSE NoneDT

iso_year_week(ndt) == IsoWeek(ndt.year, ndt.month, ndt.day)

\* ndt.date().format("%Y-%m-%d")
DateStr(ndt) == <<ndt.year, ndt.month, ndt.day>>

(***************************************************************************)
(* session_type.rs                                                         *)
(***************************************************************************)
\* mutant of from_hour: the Asian range starts at hour 0
from_hour_fromZero(hour) ==
    IF hour \in 0..7 THEN "AS"
    ELSE IF hour \in 8..14 THEN "LN"
    ELSE IF hour \in 15..18 THEN "NYAM"
    ELSE IF hour \in 19..20 THEN "NYL"
    ELSE IF hour \in 21..23 THEN "NYPM"
    ELSE "Unknown"

from_hour(hour) ==
    IF hour \in 1..7 THEN "AS"
    ELSE IF hour \in 8..14 THEN "LN"
    ELSE IF hour \in 15..18 THEN "NYAM"
    ELSE IF hour \in 19..20 THEN "NYL"
    ELSE IF hour \in 21..23 THEN "NYPM"
    ELSE "Unknown"

\* the text after the first 'T' or ' ' up to the first ':' is the hour
\* and must parse as u32
from_timestamp(ts) ==
    IF ts.tsep \in {"T", " "} /\ ts.hh >= 0 THEN from_hour(ts.hh) ELSE "Unknown"

\* the String variant: Session::as_str of from_timestamp
session_from_timestamp(ts) == from_timestamp(ts)

session_from_timestamp_enum(ts) == from_timestamp(ts)

\* order of Session::as_str() as strings
SessionOrd(s) ==
    CASE s = "AS" -> 1
      [] s = "LN" -> 2
      [] s = "NYAM" -> 3
      [] s = "NYL" -> 4
      [] s = "NYPM" -> 5
      [] s = "Unknown" -> 6

(***************************************************************************)
(* candle_type.rs.  A threshold is the pair <<numerator, denominator>>;    *)
(* eps is given in price ticks.  x / (y + eps) is compared with n / d as   *)
(* (x*d - n*y) * epsDen against n * epsNum, all in integers.               *)
(***************************************************************************)
DEFAULT_DOJI_BODY_RATIO == <<1, 10>>

DEFAULT_BODY_WICK_RATIO_LONG == <<3, 2>>

DEFAULT_BODY_WICK_RATIO_SHORT == <<1, 2>>

DEFAULT_UPPER_VS_LOWER_RATIO == <<2, 1>>

\* 1e-9 when the price tick is one unit
DEFAULT_EPS == <<1, 1000000000>>

\* 1e-9 when the price tick is 0.5e-9
FineTickEps == <<2, 1>>

\* 1e-9 when the price tick is 0.5
HalfTickEps == <<1, 500000000>>

\* 1e-9 when the price tick is 0.01
CentTickEps == <<1, 10000000>>

\* mutant of RatioLeq: the comparison is reversed
RatioLeq_reversed(x, y, q, eps) == (x * q[2] - q[1] * y) >= ((q[1] * eps[1]) \div eps[2])

\* x / (y + eps) <= q
RatioLeq(x, y, q, eps) == (x * q[2] - q[1] * y) <= ((q[1] * eps[1]) \div eps[2])

\* mutant of RatioGeq: eps is left out of the denominator
RatioGeq_noEps(x, y, q, eps) == (x * q[2] - q[1] * y) >= 0

\* x / (y + eps) >= q
RatioGeq(x, y, q, eps) ==
    (x * q[2] - q[1] * y) >= ((q[1] * eps[1] + eps[2] - 1) \div eps[2])

\* mutant of pattern_from_ohlc: the doji test comes after the long-body test
pattern_from_ohlc_doji_last(o, h, l, c, doji_body_ratio, body_wick_ratio_long, body_wick_ratio_short, upper_vs_lower_ratio, eps) ==
    LET body == Abs(c - o)
        max_co == IF c > o THEN c ELSE o
        min_co == IF c < o THEN c ELSE o
        upper == IF h - max_co < 0 THEN 0 ELSE h - max_co
        lower == IF min_co - l < 0 THEN 0 ELSE min_co - l
        rng == Max2(h - l, 0)
        sum_wicks == upper + lower
        is_doji == RatioLeq(body, rng, doji_body_ratio, eps)
        is_dominant_body == RatioGeq(body, sum_wicks, body_wick_ratio_long, eps)
        is_wick_dominated == RatioLeq(body, sum_wicks, body_wick_ratio_short, eps)
    IN IF is_dominant_body THEN
            IF c > o THEN "Bullish Long Body"
            ELSE IF c < o THEN "Bearish Long Body"
            ELSE "Neutral Long Body"
       ELSE IF is_doji THEN "Doji/SpinningTop"
       ELSE IF is_wick_dominated THEN "Long Wicks (unspecified)"
       ELSE IF c > o THEN "Mild Bullish"
            ELSE IF c < o THEN "Mild Bearish"
            ELSE "Neutral"

pattern_from_ohlc(o, h, l, c, doji_body_ratio, body_wick_ratio_long, body_wick_ratio_short, upper_vs_lower_ratio, eps) ==
    LET body == Abs(c - o)
        max_co == IF c > o THEN c ELSE o
        min_co == IF c < o THEN c ELSE o
        upper == IF h - max_co < 0 THEN 0 ELSE h - max_co
        lower == IF min_co - l < 0 THEN 0 ELSE min_co - l
        rng == Max2(h - l, 0)
        sum_wicks == upper + lower
        close_up == c > o
        close_down == c < o
        is_doji == RatioLeq(body, rng, doji_body_ratio, eps)
        is_dominant_body == RatioGeq(body, sum_wicks, body_wick_ratio_long, eps)
        is_wick_dominated == RatioLeq(body, sum_wicks, body_wick_ratio_short, eps)
        long_upper == (upper * upper_vs_lower_ratio[2] >= upper_vs_lower_ratio[1] * lower)
                      /\ upper > 0
        long_lower == (lower * upper_vs_lower_ratio[2] >= upper_vs_lower_ratio[1] * upper)
                      /\ lower > 0
        both_wicks == upper > 0 /\ lower > 0 /\ ~long_upper /\ ~long_lower
    IN IF is_doji THEN "Doji/SpinningTop"
       ELSE IF is_dominant_body THEN
            IF close_up THEN "Bullish Long Body"
            ELSE IF close_down THEN "Bearish Long Body"
            ELSE "Neutral Long Body"
       ELSE IF is_wick_dominated THEN
            IF long_upper THEN "Long Upper Wick"
            ELSE IF long_lower THEN "Long Lower Wick"
            ELSE IF both_wicks THEN "Long Both Wicks / SpinningTop"
            ELSE "Long Wicks (unspecified)"
       ELSE IF close_up THEN "Mild Bullish"
            ELSE IF close_down THEN "Mild Bearish"
            ELSE "Neutral"

\* the default thresholds with the eps of the price tick in use
Thresholds(eps) ==
    [doji_body_ratio |-> DEFAULT_DOJI_BODY_RATIO,
     body_wick_ratio_long |-> DEFAULT_BODY_WICK_RATIO_LONG,
     body_wick_ratio_short |-> DEFAULT_BODY_WICK_RATIO_SHORT,
     upper_vs_lower_ratio |-> DEFAULT_UPPER_VS_LOWER_RATIO,
     eps |-> eps]

\* classify_candles with the thresholds t: one CandlePattern per bar, in order
classify_candles(input, t) ==
    [i \in 1..Len(input) |->
        LET r == input[i]
            max_co == IF r.close > r.open THEN r.close ELSE r.open
            min_co == IF r.close < r.open THEN r.close ELSE r.open
        IN [timestamp |-> r.timestamp,
            open |-> r.open, high |-> r.high, low |-> r.low, close |-> r.close,
            volume |-> r.volume,
            body |-> Abs(r.close - r.open),
            upper_wick |-> IF r.high - max_co < 0 THEN 0 ELSE r.high - max_co,
            lower_wick |-> IF min_co - r.low < 0 THEN 0 ELSE min_co - r.low,
            pattern |-> pattern_from_ohlc(r.open, r.high, r.low, r.close,
                                          t.doji_body_ratio, t.body_wick_ratio_long,
                                          t.body_wick_ratio_short,
                                          t.upper_vs_lower_ratio, t.eps),
            session |-> session_from_timestamp(r.timestamp)]]

\* the call every aggregator makes when it finalizes a bucket
DefaultPattern(v) ==
    pattern_from_ohlc(v.open, v.high, v.low, v.close,
                      DEFAULT_DOJI_BODY_RATIO, DEFAULT_BODY_WICK_RATIO_LONG,
                      DEFAULT_BODY_WICK_RATIO_SHORT, DEFAULT_UPPER_VS_LOWER_RATIO,
                      DEFAULT_EPS)

(***************************************************************************)
(* week_day_data.rs: aggregate_period                                      *)
(***************************************************************************)
\* mutant of SortRefs: the references are left in input order
SortRefs_unsorted(d) == d

\* refs = data.iter().collect(); refs.sort_by(timestamp)
SortRefs(d) == SortBy([i \in 1..Len(d) |-> TsKey(d[i].timestamp)], d)

\* a PeriodAgg inserted for the first bar of a bucket
NewPeriodAgg(key, r, mem) ==
    [date |-> key, open |-> r.open, high |-> r.high, low |-> r.low,
     close |-> r.close, volume |-> r.volume,
     first_ts |-> r.timestamp, last_ts |-> r.timestamp,
     pattern |-> "", members |-> mem]

\* mutant of MergeBar: the running high and low take the incoming bar's values
MergeBar_overwrite(a, r) ==
    [a EXCEPT
       !.high = r.high,
       !.low = r.low,
       !.first_ts = IF TsLess(r.timestamp, a.first_ts) THEN r.timestamp ELSE a.first_ts,
       !.open = IF TsLess(r.timestamp, a.first_ts) THEN r.open ELSE a.open,
       !.last_ts = IF TsLess(a.last_ts, r.timestamp) THEN r.timestamp ELSE a.last_ts,
       !.close = IF TsLess(a.last_ts, r.timestamp) THEN r.close ELSE a.close,
       !.volume = a.volume + r.volume]

\* the Some(a) arm: merge bar r into the existing PeriodAgg a
MergeBar(a, r) ==
    [a EXCEPT
       !.high = IF r.high > a.high THEN r.high ELSE a.high,
       !.low = IF r.low < a.low THEN r.low ELSE a.low,
       !.first_ts = IF TsLess(r.timestamp, a.first_ts) THEN r.timestamp ELSE a.first_ts,
       !.open = IF TsLess(r.timestamp, a.first_ts) THEN r.open ELSE a.open,
       !.last_ts = IF TsLess(a.last_ts, r.timestamp) THEN r.timestamp ELSE a.last_ts,
       !.close = IF TsLess(a.last_ts, r.timestamp) THEN r.close ELSE a.close,
       !.volume = a.volume + r.volume]

\* if !a.members.contains(&day_str) { a.members.push(day_str) }
PushMember(a, day_str) ==
    IF Contains(a.members, day_str) THEN a
    ELSE [a EXCEPT !.members = Append(a.members, day_str)]

\* match map.get_mut(key) { Some(a) => merge, None => insert } (daily, weekday, monthly)
Upsert(map, key, r) ==
    IF key \in DOMAIN map THEN Put(map, key, MergeBar(map[key], r))
    ELSE Put(map, key, NewPeriodAgg(key, r, << >>))

\* the same for the weekly map, which also records the member dates
UpsertWeekly(map, key, r, day_str) ==
    IF key \in DOMAIN map THEN Put(map, key, PushMember(MergeBar(map[key], r), day_str))
    ELSE Put(map, key, NewPeriodAgg(key, r, <<day_str>>))

\* *iso_week_assigned_month.entry(iso_key).or_insert(record_month)
OwningMonth(assigned, iso_key, record_month) ==
    IF iso_key \in DOMAIN assigned THEN assigned[iso_key] ELSE record_month

\* mutant of BumpCounter: the counter of a month is set to 1 and never incremented
BumpCounter_noIncrement(counter, counter_key) ==
    IF counter_key \in DOMAIN counter THEN counter[counter_key] ELSE 1

\* the counter after monthly_week_counter.entry(counter_key).or_insert(0) += 1
BumpCounter(counter, counter_key) ==
    (IF counter_key \in DOMAIN counter THEN counter[counter_key] ELSE 0) + 1

\* Weekday::Mon..Fri => "Mon".."Fri"; Sat and Sun have no bucket
WeekdayStr(wd) ==
    CASE wd = 1 -> "Mon"
      [] wd = 2 -> "Tue"
      [] wd = 3 -> "Wed"
      [] wd = 4 -> "Thu"
      [] wd = 5 -> "Fri"
      [] OTHER -> "none"

InitPeriodState ==
    [daily |-> EmptyMap, weekly |-> EmptyMap, weekday_map |-> EmptyMap,
     monthly |-> EmptyMap, monthly_iso_week_index |-> EmptyMap,
     iso_week_assigned_month |-> EmptyMap, monthly_week_counter |-> EmptyMap]

\* mutant of WeekKeyOf: the key carries the calendar year of the bar instead of
\* the ISO week-year
WeekKeyOf_calendarYear(s, ndt) ==
    LET iso_key == iso_year_week(ndt)
        owning_month == OwningMonth(s.iso_week_assigned_month, iso_key, ndt.month)
        idx_key == <<iso_key[1], owning_month, iso_key[2]>>
        week_index == IF idx_key \in DOMAIN s.monthly_iso_week_index
                      THEN s.monthly_iso_week_index[idx_key]
                      ELSE BumpCounter(s.monthly_week_counter, <<iso_key[1], owning_month>>)
    IN <<ndt.year, owning_month, week_index>>

\* the weekly key format!("{:04}-{:02}-W{}", ...) that bar r gets in state s
WeekKeyOf(s, ndt) ==
    LET iso_key == iso_year_week(ndt)
        owning_month == OwningMonth(s.iso_week_assigned_month, iso_key, ndt.month)
        idx_key == <<iso_key[1], owning_month, iso_key[2]>>
        week_index == IF idx_key \in DOMAIN s.monthly_iso_week_index
                      THEN s.monthly_iso_week_index[idx_key]
                      ELSE BumpCounter(s.monthly_week_counter, <<iso_key[1], owning_month>>)
    IN <<iso_key[1], owning_month, week_index>>

\* one iteration of "for r in refs"
\* mutant of IsWeekdayArm: Saturday takes the weekday arm
IsWeekdayArm_withSaturday(wd) == wd \in 1..6

\* Weekday::Mon | Weekday::Tue | Weekday::Wed | Weekday::Thu | Weekday::Fri
IsWeekdayArm(wd) == wd \in 1..5

\* mutant of ParseBar: unwrap_or_default, a failed parse gives 1970-01-01 00:00
ParseBar_orDefault(r) ==
    IF parse_ts_to_naive(r.timestamp) = NoneDT
    THEN [year |-> 1970, month |-> 1, day |-> 1, hour |-> 0]
    ELSE parse_ts_to_naive(r.timestamp)

\* let ndt_opt = parse_ts_to_naive(&r.timestamp)
ParseBar(r) == parse_ts_to_naive(r.timestamp)

PeriodStep(s, r) ==
    LET ndt == ParseBar(r)
    IN IF ndt = NoneDT THEN s
       ELSE
       LET date_str == DateStr(ndt)
           iso_key == iso_year_week(ndt)
           owning_month == OwningMonth(s.iso_week_assigned_month, iso_key, ndt.month)
           idx_key == <<iso_key[1], owning_month, iso_key[2]>>
           counter_key == <<iso_key[1], owning_month>>
           fresh == idx_key \notin DOMAIN s.monthly_iso_week_index
           week_key == WeekKeyOf(s, ndt)
           wd == WeekdayNum(ndt.year, ndt.month, ndt.day)
           month_key == <<ndt.year, ndt.month>>
       IN [daily |-> Upsert(s.daily, date_str, r),
           weekly |-> UpsertWeekly(s.weekly, week_key, r, date_str),
           weekday_map |-> IF IsWeekdayArm(wd) THEN Upsert(s.weekday_map, WeekdayStr(wd), r)
                           ELSE s.weekday_map,
           monthly |-> Upsert(s.monthly, month_key, r),
           monthly_iso_week_index |->
               IF fresh THEN Put(s.monthly_iso_week_index, idx_key, week_key[3])
               ELSE s.monthly_iso_week_index,
           iso_week_assigned_month |->
               Put(s.iso_week_assigned_month, iso_key, owning_month),
           monthly_week_counter |->
               IF fresh THEN Put(s.monthly_week_counter, counter_key, week_key[3])
               ELSE s.monthly_week_counter]

\* v.pattern = pattern_from_ohlc(...); v.members.sort()
FinalizeAgg(v) ==
    [v EXCEPT !.pattern = DefaultPattern(v),
              !.members = SortBy(v.members, v.members)]

MapValues(map) == {map[k] : k \in DOMAIN map}

\* any sequence listing the elements of S once (HashMap iteration order)
RECURSIVE SetToSeq(_)
SetToSeq(S) ==
    IF S = {} THEN << >>
    ELSE LET x == CHOOSE y \in S : TRUE IN <<x>> \o SetToSeq(S \ {x})

\* map.into_iter().map(finalize).collect(), then sort_by(date)
CollectSorted(map) ==
    LET vec == SetToSeq({FinalizeAgg(v) : v \in MapValues(map)})
    IN SortBy([i \in 1..Len(vec) |-> vec[i].date], vec)

wd_ord(w) ==
    CASE w = "Mon" -> 1
      [] w = "Tue" -> 2
      [] w = "Wed" -> 3
      [] w = "Thu" -> 4
      [] w = "Fri" -> 5
      [] OTHER -> 99

CollectWeekdays(map) ==
    LET vec == SetToSeq({FinalizeAgg(v) : v \in MapValues(map)})
    IN SortBy([i \in 1..Len(vec) |-> <<wd_ord(vec[i].date)>>], vec)

\* (daily_vec, weekly_vec, weekday_vec, monthly_vec)
PeriodResult(s) ==
    [daily |-> CollectSorted(s.daily), weekly |-> CollectSorted(s.weekly),
     weekday |-> CollectWeekdays(s.weekday_map), monthly |-> CollectSorted(s.monthly)]

RECURSIVE PeriodFold(_, _)
PeriodFold(s, rs) ==
    IF rs = << >> THEN s ELSE PeriodFold(PeriodStep(s, Head(rs)), Tail(rs))

\* the whole function on input d
aggregate_period(d) == PeriodResult(PeriodFold(InitPeriodState, SortRefs(d)))

(***************************************************************************)
(* session_data_agg.rs: aggregate_sessions                                 *)
(***************************************************************************)
\* r.timestamp.split('T').next(): the text before the first 'T', which is the
\* whole timestamp when date and time are separated by a space
DatePart(ts) ==
    IF ts.tsep = "T" THEN <<ts.y, CharCode(ts.dsep), ts.m, ts.d>>
    ELSE TsKey(ts)

NewSessionAgg(date_part, session, r) ==
    [date |-> date_part, session |-> session, open |-> r.open, high |-> r.high,
     low |-> r.low, close |-> r.close, volume |-> r.volume,
     high_ts |-> r.timestamp, low_ts |-> r.timestamp, pattern |-> ""]

\* the and_modify closure
ModifySessionAgg(agg, r) ==
    [agg EXCEPT
       !.high = IF r.high > agg.high THEN r.high ELSE agg.high,
       !.high_ts = IF r.high > agg.high THEN r.timestamp ELSE agg.high_ts,
       !.low = IF r.low < agg.low THEN r.low ELSE agg.low,
       !.low_ts = IF r.low < agg.low THEN r.timestamp ELSE agg.low_ts,
       !.close = r.close,
       !.volume = agg.volume + r.volume]

\* mutant of SessionStep: a bar of session Unknown is aggregated like any other
SessionStep_keepUnknown(map, r) ==
    LET date_part == DatePart(r.timestamp)
        session == session_from_timestamp_enum(r.timestamp)
        key == <<date_part, session>>
    IN IF key \in DOMAIN map THEN Put(map, key, ModifySessionAgg(map[key], r))
       ELSE Put(map, key, NewSessionAgg(date_part, session, r))

\* one iteration of "for r in data"
SessionStep(map, r) ==
    LET date_part == DatePart(r.timestamp)
        session == session_from_timestamp_enum(r.timestamp)
        key == <<date_part, session>>
    IN IF session = "Unknown" THEN map
       ELSE IF key \in DOMAIN map THEN Put(map, key, ModifySessionAgg(map[key], r))
       ELSE Put(map, key, NewSessionAgg(date_part, session, r))

\* pattern, collect, sort_by (date, session.as_str())
SessionResult(map) ==
    LET vec == SetToSeq({[v EXCEPT !.pattern = DefaultPattern(v)] : v \in MapValues(map)})
    IN SortBy([i \in 1..Len(vec) |-> vec[i].date \o <<SessionOrd(vec[i].session)>>], vec)

RECURSIVE SessionFold(_, _)
SessionFold(map, rs) ==
    IF rs = << >> THEN map ELSE SessionFold(SessionStep(map, Head(rs)), Tail(rs))

\* the whole function on input d
aggregate_sessions(d) == SessionResult(SessionFold(EmptyMap, d))

(***************************************************************************)
(* data_engine.rs: parse_ts_to_naive, the parser the two table builders    *)
(* use.  Its argument is a string given as the tuple of its fields (TsKey);*)
(* the date-only layouts give midnight, and "YYYY.MM.DD HH:MM:SS" is not   *)
(* among its formats.                                                      *)
(***************************************************************************)
data_engine_parse_ts_to_naive(k) ==
    IF Len(k) = 4 /\ k[2] \in {CharCode("-"), CharCode(".")}
    THEN [year |-> k[1], month |-> k[3], day |-> k[4], hour |-> 0]
    ELSE IF /\ Len(k) = 6
            /\ k[6] \in 0..23
            /\ \/ k[2] = CharCode(".") /\ k[5] = CharCode("T")
               \/ k[2] = CharCode("-") /\ k[5] \in {CharCode("T"), CharCode(" ")}
    THEN [year |-> k[1], month |-> k[3], day |-> k[4], hour |-> k[6]]
    ELSE NoneDT

\* Weekday::to_string
weekday_to_string(wd) ==
    CASE wd = 1 -> "Mon"
      [] wd = 2 -> "Tue"
      [] wd = 3 -> "Wed"
      [] wd = 4 -> "Thu"
      [] wd = 5 -> "Fri"
      [] wd = 6 -> "Sat"
      [] wd = 7 -> "Sun"

\* the elements of s at the positions of P, in the order of s
RECURSIVE SubSeqAt(_, _)
SubSeqAt(s, P) ==
    IF P = {} THEN << >>
    ELSE LET i == SetMin(P) IN <<s[i]>> \o SubSeqAt(s, P \ {i})

(***************************************************************************)
(* daily_session_aggregator.rs: aggregate_daily_session_table.  An hour    *)
(* column holds the hour as a number, NoTime standing for the empty string.*)
(***************************************************************************)
\* f64::MIN and f64::MAX: below and above every price of the model
F64_MIN == -1000000000

F64_MAX == 1000000000

NoTime == -1

\* parse_ts_to_naive(ts).map(|dt| dt.hour().to_string()).unwrap_or_default()
HourOrDefault(ts) ==
    LET ndt == data_engine_parse_ts_to_naive(TsKey(ts))
    IN IF ndt = NoneDT THEN NoTime ELSE ndt.hour

InitDayAcc ==
    [day_high |-> F64_MIN, day_low |-> F64_MAX,
     day_high_session |-> "", day_low_session |-> "",
     ny_high |-> F64_MIN, ny_low |-> F64_MAX,
     ny_high_time |-> NoTime, ny_low_time |-> NoTime,
     session_data |-> EmptyMap]

\* mutant of Exceeds: >= in place of >
Exceeds_orEqual(a, b) == a >= b

\* session.high > day_high
Exceeds(a, b) == a > b

\* session.low < day_low
Undercuts(a, b) == a < b

\* one iteration of "for session in &sorted_sessions"
DayStep(acc, session) ==
    LET is_ny == session.session \in {"NYAM", "NYL", "NYPM"}
    IN [acc EXCEPT
          !.day_high = IF Exceeds(session.high, acc.day_high) THEN session.high ELSE acc.day_high,
          !.day_high_session = IF Exceeds(session.high, acc.day_high) THEN session.session
                               ELSE acc.day_high_session,
          !.day_low = IF Undercuts(session.low, acc.day_low) THEN session.low ELSE acc.day_low,
          !.day_low_session = IF Undercuts(session.low, acc.day_low) THEN session.session
                              ELSE acc.day_low_session,
          !.ny_high = IF is_ny /\ Exceeds(session.high, acc.ny_high) THEN session.high
                      ELSE acc.ny_high,
          !.ny_high_time = IF is_ny /\ Exceeds(session.high, acc.ny_high)
                           THEN HourOrDefault(session.high_ts) ELSE acc.ny_high_time,
          !.ny_low = IF is_ny /\ Undercuts(session.low, acc.ny_low) THEN session.low ELSE acc.ny_low,
          !.ny_low_time = IF is_ny /\ Undercuts(session.low, acc.ny_low)
                          THEN HourOrDefault(session.low_ts) ELSE acc.ny_low_time,
          !.session_data = Put(acc.session_data, session.session,
                               <<HourOrDefault(session.low_ts),
                                 HourOrDefault(session.high_ts),
                                 DefaultPattern(session)>>)]

RECURSIVE DayFold(_, _)
DayFold(acc, sessions) ==
    IF sessions = << >> THEN acc ELSE DayFold(DayStep(acc, Head(sessions)), Tail(sessions))

\* mutant of SortSessions: the sessions of a date are left in input order
SortSessions_unsorted(sessions) == sessions

\* sort_by(date, then session.as_str())
SortSessions(sessions) ==
    SortBy([i \in 1..Len(sessions) |->
               sessions[i].date \o <<SessionOrd(sessions[i].session)>>], sessions)

\* session_data.get(code).map(|t| t.n).unwrap_or_default()
SessionDatum(session_data, code, n, default) ==
    IF code \in DOMAIN session_data THEN session_data[code][n] ELSE default

\* the body of "for (_key, sessions) in daily_map": the row of one date
DayRow(sessions) ==
    LET sorted_sessions == SortSessions(sessions)
        acc == DayFold(InitDayAcc, sorted_sessions)
        first_session == sorted_sessions[1]
        day_open == first_session.open
        day_close == sorted_sessions[Len(sorted_sessions)].close
        ndt == data_engine_parse_ts_to_naive(first_session.date)
    IN [date |-> first_session.date,
        week |-> IsoWeek(ndt.year, ndt.month, ndt.day)[2],
        day |-> weekday_to_string(WeekdayNum(ndt.year, ndt.month, ndt.day)),
        day_candle_pattern |->
            DefaultPattern([open |-> day_open, high |-> acc.day_high,
                            low |-> acc.day_low, close |-> day_close]),
        as_candle_pattern |-> SessionDatum(acc.session_data, "AS", 3, ""),
        ln_candle_pattern |-> SessionDatum(acc.session_data, "LN", 3, ""),
        nyam_candle_pattern |-> SessionDatum(acc.session_data, "NYAM", 3, ""),
        nyl_candle_pattern |-> SessionDatum(acc.session_data, "NYL", 3, ""),
        nypm_candle_pattern |-> SessionDatum(acc.session_data, "NYPM", 3, ""),
        day_high_session |-> acc.day_high_session,
        day_low_session |-> acc.day_low_session,
        as_low_time |-> SessionDatum(acc.session_data, "AS", 1, NoTime),
        as_high_time |-> SessionDatum(acc.session_data, "AS", 2, NoTime),
        ln_low_time |-> SessionDatum(acc.session_data, "LN", 1, NoTime),
        ln_high_time |-> SessionDatum(acc.session_data, "LN", 2, NoTime),
        ny_low_time |-> acc.ny_low_time,
        ny_high_time |-> acc.ny_high_time]

\* the key of an element that "None => continue" leaves out of the map
NoKey == << >>

\* date_key of a SessionAgg: ndt.format("%Y-%m-%d"), or NoKey if it is skipped
DateKeyOf(s_agg) ==
    LET ndt == data_engine_parse_ts_to_naive(s_agg.date)
    IN IF ndt = NoneDT THEN NoKey ELSE DateStr(ndt)

\* the whole function: group by date_key, one row per group, sort_by(date)
aggregate_daily_session_table(session_aggs) ==
    LET n == Len(session_aggs)
        keys == {DateKeyOf(session_aggs[i]) : i \in 1..n} \ {NoKey}
        group(k) == SubSeqAt(session_aggs, {i \in 1..n : DateKeyOf(session_aggs[i]) = k})
        result == SetToSeq({DayRow(group(k)) : k \in keys})
    IN SortBy([i \in 1..Len(result) |-> result[i].date], result)

(***************************************************************************)
(* weekly_table_aggregator.rs: aggregate_weekly_table.  The date of a      *)
(* daily PeriodAgg is the string "YYYY-MM-DD".                             *)
(***************************************************************************)
\* the decimal digits of n, as to_string writes them
RECURSIVE Digits(_)
Digits(n) == IF n < 10 THEN <<n>> ELSE Digits(n \div 10) \o <<n % 10>>

\* the string "YYYY-MM-DD" of a daily date as the tuple of its fields
DateText(date) == <<date[1], CharCode("-"), date[2], date[3]>>

\* format!("{}{}", iso_week().year(), iso_week().week()), or NoKey if skipped
WeekKeyOfDay(d_agg) ==
    LET ndt == data_engine_parse_ts_to_naive(DateText(d_agg.date))
    IN IF ndt = NoneDT THEN NoKey
       ELSE Digits(iso_year_week(ndt)[1]) \o Digits(iso_year_week(ndt)[2])

InitWeekAcc ==
    [high |-> F64_MIN, low |-> F64_MAX, volume |-> 0,
     high_day |-> "Mon", low_day |-> "Mon", daily_patterns |-> EmptyMap]

\* one iteration of "for day in &daily_days_sorted"
WeekStep(acc, day) ==
    LET ndt == data_engine_parse_ts_to_naive(DateText(day.date))
        weekday == weekday_to_string(WeekdayNum(ndt.year, ndt.month, ndt.day))
    IN [acc EXCEPT
          !.high = IF day.high > acc.high THEN day.high ELSE acc.high,
          !.high_day = IF day.high > acc.high THEN weekday ELSE acc.high_day,
          !.low = IF day.low < acc.low THEN day.low ELSE acc.low,
          !.low_day = IF day.low < acc.low THEN weekday ELSE acc.low_day,
          !.volume = acc.volume + day.volume,
          !.daily_patterns = Put(acc.daily_patterns, weekday, day.pattern)]

RECURSIVE WeekFold(_, _)
WeekFold(acc, days) ==
    IF days = << >> THEN acc ELSE WeekFold(WeekStep(acc, Head(days)), Tail(days))

\* daily_patterns.get(&weekday).cloned().unwrap_or_default()
PatternOfDay(daily_patterns, weekday) ==
    IF weekday \in DOMAIN daily_patterns THEN daily_patterns[weekday] ELSE ""

\* mutant of WeekOpen: the open of the last day of the week
WeekOpen_lastDay(daily_days_sorted) == daily_days_sorted[Len(daily_days_sorted)].open

\* daily_days_sorted.first().unwrap().open
WeekOpen(daily_days_sorted) == daily_days_sorted[1].open

\* the body of "for (_key, daily_days) in weekly_map": the row of one week
WeekRow(daily_days) ==
    LET daily_days_sorted == SortBy([i \in 1..Len(daily_days) |-> daily_days[i].date],
                                    daily_days)
        open == WeekOpen(daily_days_sorted)
        close == daily_days_sorted[Len(daily_days_sorted)].close
        acc == WeekFold(InitWeekAcc, daily_days_sorted)
        first_day_ndt == data_engine_parse_ts_to_naive(DateText(daily_days_sorted[1].date))
    IN [year |-> first_day_ndt.year,
        month |-> first_day_ndt.month,
        week |-> iso_year_week(first_day_ndt)[2],
        monday_pattern |-> PatternOfDay(acc.daily_patterns, "Mon"),
        tuesday_pattern |-> PatternOfDay(acc.daily_patterns, "Tue"),
        wednesday_pattern |-> PatternOfDay(acc.daily_patterns, "Wed"),
        thursday_pattern |-> PatternOfDay(acc.daily_patterns, "Thu"),
        friday_pattern |-> PatternOfDay(acc.daily_patterns, "Fri"),
        open |-> open, high |-> acc.high, low |-> acc.low, close |-> close,
        volume |-> acc.volume,
        high_day |-> acc.high_day, low_day |-> acc.low_day,
        week_pattern |-> DefaultPattern([open |-> open, high |-> acc.high,
                                         low |-> acc.low, close |-> close])]

\* the keys of weekly_map
WeekKeys(daily_aggs) == {WeekKeyOfDay(daily_aggs[i]) : i \in 1..Len(daily_aggs)} \ {NoKey}

\* the whole function; order is the order in which the HashMap weekly_map is
\* iterated, and the final sort is by the strings year and "Week n"
aggregate_weekly_table(daily_aggs, order) ==
    LET n == Len(daily_aggs)
        keys == Permute(SetToSeq(WeekKeys(daily_aggs)), order)
        group(k) == SubSeqAt(daily_aggs, {i \in 1..n : WeekKeyOfDay(daily_aggs[i]) = k})
        result == [j \in 1..Len(keys) |-> WeekRow(group(keys[j]))]
    IN SortBy([j \in 1..Len(result) |-> Digits(result[j].year) \o <<CharCode(" ")>>
                                            \o Digits(result[j].week)], result)

(***************************************************************************)
(* Inputs                                                                  *)
(***************************************************************************)
Ts(date, hh, dsep, tsep) ==
    [y |-> date[1], m |-> date[2], d |-> date[3], hh |-> hh, dsep |-> dsep, tsep |-> tsep]

Bar(ts, p) ==
    [timestamp |-> ts, open |-> p.open, high |-> p.high, low |-> p.low,
     close |-> p.close, volume |-> p.volume]

Profiles ==
    {[open |-> 1, high |-> 3, low |-> 1, close |-> 2, volume |-> 1],
     [open |-> 2, high |-> 4, low |-> 0, close |-> 1, volume |-> 2]}

\* Wednesday and Thursday of ISO week 2023-W22, which straddles May and June;
\* both hours are in the Asian session
MergeBars ==
    {Bar(Ts(date, hh, "-", "T"), p) :
        date \in {<<2023, 5, 31>>, <<2023, 6, 1>>}, hh \in {2, 3}, p \in Profiles}

\* Wednesday of W21, Wednesday, Thursday and Saturday of W22, in three of the
\* accepted timestamp layouts
FormatBars ==
    {Bar(Ts(date, 2, f[1], f[2]), [open |-> 1, high |-> 3, low |-> 1, close |-> 2, volume |-> 1]) :
        date \in {<<2023, 5, 24>>, <<2023, 5, 31>>, <<2023, 6, 1>>, <<2023, 6, 3>>},
        f \in {<<"-", "T">>, <<".", "T">>, <<"-", " ">>}}

\* Wednesday and Thursday of W22 at hour 00 (no session) and hour 02 (Asian),
\* with an hour token that is not a number, and without a time part; the last
\* two resolve to no session and do not parse in aggregate_period
SkipBars ==
    {Bar(Ts(date, f[1], "-", f[2]), [open |-> 1, high |-> 3, low |-> 1, close |-> 2, volume |-> 1]) :
        date \in {<<2023, 5, 31>>, <<2023, 6, 1>>},
        f \in {<<0, "T">>, <<2, "T">>, <<-1, "T">>, <<0, "">>}}

TableProfiles ==
    {[open |-> 0, high |-> 4, low |-> 0, close |-> 1, volume |-> 1],
     [open |-> 3, high |-> 5, low |-> 0, close |-> 4, volume |-> 2]}

\* Wednesday of W22 in the Asian (02) and the London (09) session, in two
\* timestamp layouts; Wednesday of W21 and Thursday of W22 in the Asian session
TableBars ==
    {Bar(Ts(<<2023, 5, 31>>, hh, dsep, "T"), p) :
        hh \in {2, 9}, dsep \in {"-", "."}, p \in TableProfiles}
    \cup {Bar(Ts(date, 2, "-", "T"), p) :
              date \in {<<2023, 5, 24>>, <<2023, 6, 1>>}, p \in TableProfiles}

\* Mondays of ISO weeks 2024-W01, W02, W10 and W52, Monday 2024-12-30 and
\* Wednesday 2025-01-01 of ISO week 2025-W01, which straddles the year
\* boundary, and Monday of 2025-W52; one timestamp layout, Asian session
YearBars ==
    {Bar(Ts(date, 2, "-", "T"), [open |-> 1, high |-> 3, low |-> 1, close |-> 2, volume |-> 1]) :
        date \in {<<2024, 1, 1>>, <<2024, 1, 8>>, <<2024, 3, 4>>, <<2024, 12, 23>>,
                  <<2024, 12, 30>>, <<2025, 12, 22>>}}
    \cup {Bar(Ts(<<2025, 1, 1>>, 2, "-", "T"), p) : p \in Profiles}

NoOhlc == [o |-> 0, h |-> 0, l |-> 0, c |-> 0]

\* the driver at position start with one of the inputs, nothing computed yet
InitData(inputs, start, thresholds) ==
    /\ data \in inputs
    /\ pc = start
    /\ refs = << >>
    /\ idx = 0
    /\ daily = EmptyMap
    /\ weekly = EmptyMap
    /\ weekday_map = EmptyMap
    /\ monthly = EmptyMap
    /\ monthly_iso_week_index = EmptyMap
    /\ iso_week_assigned_month = EmptyMap
    /\ monthly_week_counter = EmptyMap
    /\ period_out = [daily |-> << >>, weekly |-> << >>, weekday |-> << >>, monthly |-> << >>]
    /\ aggs = EmptyMap
    /\ sidx = 0
    /\ session_out = << >>
    /\ daily_table = << >>
    /\ weekly_table = << >>
    /\ candles = << >>
    /\ ohlc = NoOhlc
    /\ cfg = thresholds
    /\ label = ""

InitWith(pool) == InitData(SeqsUpTo(pool, MaxBars), "start", Thresholds(DEFAULT_EPS))

Init == InitWith(MergeBars)

InitFormats == InitWith(FormatBars)

InitSkip == InitWith(SkipBars)

InitTables == InitWith(TableBars)

InitYear == InitWith(YearBars)

\* the local maps of aggregate_period as one record
PeriodState ==
    [daily |-> daily, weekly |-> weekly, weekday_map |-> weekday_map,
     monthly |-> monthly, monthly_iso_week_index |-> monthly_iso_week_index,
     iso_week_assigned_month |-> iso_week_assigned_month,
     monthly_week_counter |-> monthly_week_counter]

periodVars == <<refs, idx, daily, weekly, weekday_map, monthly, monthly_iso_week_index,
                iso_week_assigned_month, monthly_week_counter, period_out>>

sessionVars == <<aggs, sidx, session_out>>

tableVars == <<daily_table, weekly_table>>

classifyVars == <<candles, ohlc, cfg, label>>

(***************************************************************************)
(* Actions                                                                 *)
(***************************************************************************)
\* aggregate_period is entered: the references are collected and sorted
PeriodSort ==
    /\ pc = "start"
    /\ refs' = SortRefs(data)
    /\ pc' = "period_loop"
    /\ UNCHANGED <<data, idx, daily, weekly, weekday_map, monthly, monthly_iso_week_index,
                   iso_week_assigned_month, monthly_week_counter, period_out,
                   sessionVars, tableVars, classifyVars>>

\* one iteration of "for r in refs"
PeriodBar ==
    /\ pc = "period_loop"
    /\ idx < Len(refs)
    /\ LET s == PeriodStep(PeriodState, refs[idx + 1])
       IN /\ daily' = s.daily
          /\ weekly' = s.weekly
          /\ weekday_map' = s.weekday_map
          /\ monthly' = s.monthly
          /\ monthly_iso_week_index' = s.monthly_iso_week_index
          /\ iso_week_assigned_month' = s.iso_week_assigned_month
          /\ monthly_week_counter' = s.monthly_week_counter
    /\ idx' = idx + 1
    /\ UNCHANGED <<pc, data, refs, period_out, sessionVars, tableVars, classifyVars>>

\* the loop is over: patterns, member sort, collect, sort, return
PeriodFinish ==
    /\ pc = "period_loop"
    /\ idx = Len(refs)
    /\ period_out' = PeriodResult(PeriodState)
    /\ pc' = "session_loop"
    /\ UNCHANGED <<data, refs, idx, daily, weekly, weekday_map, monthly,
                   monthly_iso_week_index, iso_week_assigned_month, monthly_week_counter,
                   sessionVars, tableVars, classifyVars>>

\* one iteration of "for r in data" of aggregate_sessions
SessionBar ==
    /\ pc = "session_loop"
    /\ sidx < Len(data)
    /\ aggs' = SessionStep(aggs, data[sidx + 1])
    /\ sidx' = sidx + 1
    /\ UNCHANGED <<pc, data, session_out, periodVars, tableVars, classifyVars>>

\* the loop is over: patterns, collect, sort, return
SessionFinish ==
    /\ pc = "session_loop"
    /\ sidx = Len(data)
    /\ session_out' = SessionResult(aggs)
    /\ pc' = "daily_table"
    /\ UNCHANGED <<data, aggs, sidx, periodVars, tableVars, classifyVars>>

\* aggregate_daily_session_table on the vector aggregate_sessions returned
DailySessionTable ==
    /\ pc = "daily_table"
    /\ daily_table' = aggregate_daily_session_table(session_out)
    /\ pc' = "weekly_table"
    /\ UNCHANGED <<data, weekly_table, periodVars, sessionVars, classifyVars>>

\* aggregate_weekly_table on the daily vector aggregate_period returned
WeeklyTable ==
    /\ pc = "weekly_table"
    /\ \E order \in Perms(Cardinality(WeekKeys(period_out.daily))) :
           weekly_table' = aggregate_weekly_table(period_out.daily, order)
    /\ pc' = "done"
    /\ UNCHANGED <<data, daily_table, periodVars, sessionVars, classifyVars>>

Next ==
    \/ PeriodSort \/ PeriodBar \/ PeriodFinish
    \/ SessionBar \/ SessionFinish
    \/ DailySessionTable \/ WeeklyTable

Spec == Init /\ [][Next]_vars

SpecFormats == InitFormats /\ [][Next]_vars

SpecSkip == InitSkip /\ [][Next]_vars

SpecTables == InitTables /\ [][Next]_vars

SpecYear == InitYear /\ [][Next]_vars

(***************************************************************************)
(* The classifier on its own: every OHLC quadruple of 0..MaxTick ticks,    *)
(* with the default thresholds and a tick of half an epsilon.              *)
(***************************************************************************)
InitClassifyWith(quadruples, cfgs) ==
    /\ ohlc \in quadruples
    /\ cfg \in cfgs
    /\ label = ""
    /\ candles = << >>
    /\ daily_table = << >>
    /\ weekly_table = << >>
    /\ pc = "classify"
    /\ data = << >>
    /\ refs = << >>
    /\ idx = 0
    /\ daily = EmptyMap
    /\ weekly = EmptyMap
    /\ weekday_map = EmptyMap
    /\ monthly = EmptyMap
    /\ monthly_iso_week_index = EmptyMap
    /\ iso_week_assigned_month = EmptyMap
    /\ monthly_week_counter = EmptyMap
    /\ period_out = [daily |-> << >>, weekly |-> << >>, weekday |-> << >>, monthly |-> << >>]
    /\ aggs = EmptyMap
    /\ sidx = 0
    /\ session_out = << >>

TickGrid == [o : 0..MaxTick, h : 0..MaxTick, l : 0..MaxTick, c : 0..MaxTick]

InitClassify == InitClassifyWith(TickGrid, {Thresholds(FineTickEps)})

\* mutant of PatternWith: the long and the short threshold are passed in each
\* other's position
PatternWith_swapped(v, t) ==
    pattern_from_ohlc(v.o, v.h, v.l, v.c, t.doji_body_ratio, t.body_wick_ratio_short,
                      t.body_wick_ratio_long, t.upper_vs_lower_ratio, t.eps)

\* pattern_from_ohlc called with the thresholds of cfg
PatternWith(v, t) ==
    pattern_from_ohlc(v.o, v.h, v.l, v.c, t.doji_body_ratio, t.body_wick_ratio_long,
                      t.body_wick_ratio_short, t.upper_vs_lower_ratio, t.eps)

Classify ==
    /\ pc = "classify"
    /\ label' = PatternWith(ohlc, cfg)
    /\ pc' = "classified"
    /\ UNCHANGED <<data, candles, ohlc, cfg, periodVars, sessionVars, tableVars>>

NextClassify == Classify

SpecClassify == InitClassify /\ [][NextClassify]_vars

(***************************************************************************)
(* classify_candles on its own, with a price tick of 0.01 and a volume     *)
(* unit of 0.5: up to MaxCandles bars of one day, one for every hour token *)
(* 00..24, one whose hour token is not a number and one without a time     *)
(* part; and the three rows of tests::basic_classify (minutes are not part *)
(* of the hour token and are left out).                                    *)
(***************************************************************************)
BasicClassifyRows ==
    <<[timestamp |-> Ts(<<2023, 3, 27>>, 2, "-", "T"),
       open |-> 1000, high |-> 1200, low |-> 950, close |-> 1150, volume |-> 2],
      [timestamp |-> Ts(<<2023, 3, 27>>, 9, "-", "T"),
       open |-> 500, high |-> 520, low |-> 480, close |-> 501, volume |-> 4],
      [timestamp |-> Ts(<<2023, 3, 27>>, 19, "-", "T"),
       open |-> 200, high |-> 350, low |-> 190, close |-> 201, volume |-> 1]>>

HourBars ==
    {[BasicClassifyRows[1] EXCEPT !.timestamp = ts] :
        ts \in {Ts(<<2023, 3, 27>>, hh, "-", "T") : hh \in -1..24}
                \cup {Ts(<<2023, 3, 27>>, 0, "-", "")}}

InitCandles ==
    InitData(SeqsUpTo(HourBars, MaxCandles) \cup {BasicClassifyRows}, "candles",
             Thresholds(CentTickEps))

ClassifyCandles ==
    /\ pc = "candles"
    /\ candles' = classify_candles(data, cfg)
    /\ pc' = "candles_done"
    /\ UNCHANGED <<data, ohlc, cfg, label, periodVars, sessionVars, tableVars>>

NextCandles == ClassifyCandles

SpecCandles == InitCandles /\ [][NextCandles]_vars

(***************************************************************************)
(* The classifier with a price tick of 0.5: the quadruples of 0..MaxTick   *)
(* ticks and the bar of tests::basic_classify, under the default           *)
(* thresholds and under thresholds whose doji band reaches the long-body   *)
(* band.                                                                   *)
(***************************************************************************)
\* open 10, high 12, low 9.5, close 11.5 in ticks of 0.5
BasicClassifyBar == [o |-> 20, h |-> 24, l |-> 19, c |-> 23]

\* caller-supplied thresholds: doji 0.5, long 0.5, short 0.3, upper_vs_lower 2.0
WideDojiThresholds ==
    [doji_body_ratio |-> <<1, 2>>,
     body_wick_ratio_long |-> <<1, 2>>,
     body_wick_ratio_short |-> <<3, 10>>,
     upper_vs_lower_ratio |-> <<2, 1>>,
     eps |-> HalfTickEps]

InitClassifyHalf ==
    InitClassifyWith(TickGrid \cup {BasicClassifyBar},
                     {Thresholds(HalfTickEps), WideDojiThresholds})

SpecClassifyHalf == InitClassifyHalf /\ [][NextClassify]_vars

(***************************************************************************)
(* Vocabulary of the properties                                            *)
(***************************************************************************)
Ndt(r) == parse_ts_to_naive(r.timestamp)

Parsable(r) == Ndt(r) # NoneDT

CalDate(r) == DateStr(Ndt(r))

WeekOf(r) == iso_year_week(Ndt(r))

IsWeekend(r) == WeekdayNum(Ndt(r).year, Ndt(r).month, Ndt(r).day) \in {6, 7}

PeriodReturned == pc \in {"session_loop", "daily_table", "weekly_table", "done"}

\* positions of d holding a parsable bar of ISO week w
BarsOfWeek(d, w) == {i \in 1..Len(d) : Parsable(d[i]) /\ WeekOf(d[i]) = w}

WeeksOf(d) == {WeekOf(d[i]) : i \in {j \in 1..Len(d) : Parsable(d[j])}}

RECURSIVE SumVolume(_, _)
SumVolume(d, S) ==
    IF S = {} THEN 0
    ELSE LET i == CHOOSE j \in S : TRUE IN d[i].volume + SumVolume(d, S \ {i})

\* the month of a bar of ISO week w that no other bar of the week precedes in time
FirstMonthOfWeek(d, w) ==
    LET first == CHOOSE i \in BarsOfWeek(d, w) :
                     \A j \in BarsOfWeek(d, w) : ~Earlier(d[j].timestamp, d[i].timestamp)
    IN Ndt(d[first]).month

\* C1: when aggregate_period has returned, every ISO week of the input has one
\* weekly bucket that holds all of its bars (their dates and their volume), no
\* other bucket holds a date of that week, and the month of the bucket's key is
\* the calendar month of the chronologically first bar of the week.
C1_WeekInOneBucketOfFirstMonth ==
    PeriodReturned =>
        \A w \in WeeksOf(data) :
            \E k \in DOMAIN weekly :
                /\ k[1] = w[1]
                /\ k[2] = FirstMonthOfWeek(data, w)
                /\ SeqRange(weekly[k].members) = {CalDate(data[i]) : i \in BarsOfWeek(data, w)}
                /\ weekly[k].volume = SumVolume(data, BarsOfWeek(data, w))
                /\ \A k2 \in DOMAIN weekly \ {k} :
                       SeqRange(weekly[k2].members)
                           \cap {CalDate(data[i]) : i \in BarsOfWeek(data, w)} = {}

\* C2: the iteration of aggregate_period that consumes a Saturday or Sunday bar
\* leaves the weekly map as it was: no bucket is created and none is changed.
C2_WeekendBarLeavesWeekly ==
    [][(PeriodBar /\ Parsable(refs[idx + 1]) /\ IsWeekend(refs[idx + 1]))
          => weekly' = weekly]_vars

\* positions of data that aggregate_sessions puts in the bucket (date, session)
BarsOfSession(date, session) ==
    {i \in 1..Len(data) : /\ DatePart(data[i].timestamp) = date
                          /\ session_from_timestamp_enum(data[i].timestamp) = session}

\* C3: in every SessionAgg returned, open is the open of a bar of the bucket
\* that no bar of the bucket precedes in time, and close is the close of a bar
\* of the bucket that no bar of the bucket follows in time.
C3_SessionOpenCloseChronological ==
    pc = "done" =>
        \A n \in 1..Len(session_out) :
            LET v == session_out[n]
                B == BarsOfSession(v.date, v.session)
            IN /\ \E i \in B : /\ data[i].open = v.open
                               /\ \A j \in B : ~Earlier(data[j].timestamp, data[i].timestamp)
               /\ \E i \in B : /\ data[i].close = v.close
                               /\ \A j \in B : ~Earlier(data[i].timestamp, data[j].timestamp)

Families == {"daily", "weekly", "weekday", "monthly"}

\* the bucket map of a family
MapOf(fam) ==
    CASE fam = "daily" -> daily
      [] fam = "weekly" -> weekly
      [] fam = "weekday" -> weekday_map
      [] fam = "monthly" -> monthly

\* the weekly key under which ISO week w is aggregated, once w has been seen
AssignedWeekKey(w) ==
    LET m == iso_week_assigned_month[w]
    IN <<w[1], m, monthly_iso_week_index[<<w[1], m, w[2]>>]>>

\* the key of the bucket of family fam that bar r belongs to ("none": no bucket)
KeyIn(fam, r) ==
    CASE fam = "daily" -> CalDate(r)
      [] fam = "weekly" -> IF WeekOf(r) \in DOMAIN iso_week_assigned_month
                           THEN AssignedWeekKey(WeekOf(r)) ELSE "none"
      [] fam = "weekday" -> WeekdayStr(WeekdayNum(Ndt(r).year, Ndt(r).month, Ndt(r).day))
      [] fam = "monthly" -> <<Ndt(r).year, Ndt(r).month>>

\* positions among the first n of d whose bar belongs to bucket k of family fam
BarsOfBucket(fam, k, d, n) ==
    {i \in 1..n : Parsable(d[i]) /\ KeyIn(fam, d[i]) = k}

\* what order-independence compares of one returned bucket
Contents(v) ==
    [date |-> v.date, high |-> v.high, low |-> v.low, volume |-> v.volume,
     members |-> v.members]

ContentsOf(out) ==
    [fam \in Families |-> [n \in 1..Len(out[fam]) |-> Contents(out[fam][n])]]

OpenCloseOf(out) ==
    [fam \in Families |->
        [n \in 1..Len(out[fam]) |-> <<out[fam][n].date, out[fam][n].open, out[fam][n].close>>]]

C5_PeriodOpenCloseOrderIndependent ==
    pc = "done" =>
        /\ \A fam \in Families : \A n \in 1..Len(period_out[fam]) :
              LET v == period_out[fam][n]
                  B == BarsOfBucket(fam, v.date, data, Len(data))
              IN /\ \E i \in B : /\ data[i].open = v.open
                                 /\ \A j \in B : ~TsLess(data[j].timestamp, data[i].timestamp)
                 /\ \E i \in B : /\ data[i].close = v.close
                                 /\ \A j \in B : ~TsLess(data[i].timestamp, data[j].timestamp)
        /\ \A f \in Perms(Len(data)) :
              OpenCloseOf(aggregate_period(Permute(data, f))) = OpenCloseOf(period_out)

\* C6: at every point of both aggregations, every bucket of the four period
\* maps and of the session map has as high the maximum of the highs, and as low
\* the minimum of the lows, of the bars consumed so far that belong to it, and
\* every bar consumed belongs to a bucket of each family that takes it.
C6_Envelope ==
    /\ \A fam \in Families : \A k \in DOMAIN MapOf(fam) :
          LET B == BarsOfBucket(fam, k, refs, idx)
          IN /\ B # {}
             /\ MapOf(fam)[k].high = SetMax({refs[i].high : i \in B})
             /\ MapOf(fam)[k].low = SetMin({refs[i].low : i \in B})
    /\ \A fam \in Families : \A i \in 1..idx :
          (Parsable(refs[i]) /\ ~(fam = "weekday" /\ IsWeekend(refs[i])))
              => KeyIn(fam, refs[i]) \in DOMAIN MapOf(fam)
    /\ \A key \in DOMAIN aggs :
          LET B == {i \in BarsOfSession(key[1], key[2]) : i <= sidx}
          IN /\ B # {}
             /\ aggs[key].high = SetMax({data[i].high : i \in B})
             /\ aggs[key].low = SetMin({data[i].low : i \in B})
    /\ \A i \in 1..sidx :
          session_from_timestamp_enum(data[i].timestamp) # "Unknown"
              => <<DatePart(data[i].timestamp),
                   session_from_timestamp_enum(data[i].timestamp)>> \in DOMAIN aggs

\* a daily bucket and a session bucket have each merged a later bar that raised
\* the high and lowered the low of the bucket's first bar
C6_Witness ==
    /\ pc = "done"
    /\ \E k \in DOMAIN daily :
          \E i \in BarsOfBucket("daily", k, refs, idx) :
              /\ \A j \in BarsOfBucket("daily", k, refs, idx) : i <= j
              /\ daily[k].high > refs[i].high
              /\ daily[k].low < refs[i].low
    /\ \E key \in DOMAIN aggs :
          \E i \in BarsOfSession(key[1], key[2]) :
              /\ \A j \in BarsOfSession(key[1], key[2]) : i <= j
              /\ aggs[key].high > data[i].high
              /\ aggs[key].low < data[i].low

\* position in refs of the first consumed bar of ISO week w
FirstPos(w) == SetMin({i \in 1..idx : Parsable(refs[i]) /\ WeekOf(refs[i]) = w})

\* the ISO weeks attributed so far to the pair <<ISO week-year, owning month>>
WeeksOfPair(ck) ==
    {w \in DOMAIN iso_week_assigned_month :
        w[1] = ck[1] /\ iso_week_assigned_month[w] = ck[2]}

C8_SessionsKeyedByCanonicalDate ==
    pc = "done" =>
        /\ Len(session_out) =
              Cardinality({<<CalDate(data[i]), session_from_timestamp_enum(data[i].timestamp)>> :
                              i \in {j \in 1..Len(data) :
                                  session_from_timestamp_enum(data[j].timestamp) # "Unknown"}})
        /\ \A n \in 1..Len(session_out) :
              \E i \in 1..Len(data) :
                  session_out[n].date =
                      <<Ndt(data[i]).year, CharCode("-"), Ndt(data[i]).month, Ndt(data[i]).day>>

\* C9: the member list of every returned bucket of every family is strictly
\* increasing (sorted, no duplicate) and holds exactly the calendar dates of
\* the bars of the input that belong to the bucket.
C9_MembersAreTheDates ==
    PeriodReturned =>
        \A fam \in Families : \A n \in 1..Len(period_out[fam]) :
            LET v == period_out[fam][n]
            IN /\ \A a \in 1..(Len(v.members) - 1) : LexLess(v.members[a], v.members[a + 1])
               /\ SeqRange(v.members) =
                     {CalDate(data[i]) : i \in BarsOfBucket(fam, v.date, data, Len(data))}

Labels ==
    {"Doji/SpinningTop", "Bullish Long Body", "Bearish Long Body", "Neutral Long Body",
     "Long Upper Wick", "Long Lower Wick", "Long Both Wicks / SpinningTop",
     "Long Wicks (unspecified)", "Mild Bullish", "Mild Bearish", "Neutral"}

\* high - low < eps for the classified quadruple
RangeBelowEps == (ohlc.h - ohlc.l) * FineTickEps[2] < FineTickEps[1]

LongBodyLabels == {"Bullish Long Body", "Bearish Long Body", "Neutral Long Body"}

WickLabels ==
    {"Long Upper Wick", "Long Lower Wick", "Long Both Wicks / SpinningTop",
     "Long Wicks (unspecified)"}

MildLabels == {"Mild Bullish", "Mild Bearish", "Neutral"}

\* |close - open| of the classified quadruple
BodyOf(v) == Abs(v.c - v.o)

\* high - low of the classified quadruple
RangeOf(v) == v.h - v.l

\* upper wick plus lower wick, each clamped at 0
WicksOf(v) ==
    Max2(v.h - Max2(v.o, v.c), 0) + Max2(Min2(v.o, v.c) - v.l, 0)

\* |close - open| / (high - low) compared with the threshold q = <<n, d>>
BodyRatioLess(v, q) == BodyOf(v) * q[2] < q[1] * RangeOf(v)

BodyRatioLeq(v, q) == BodyOf(v) * q[2] <= q[1] * RangeOf(v)

\* |close - open| / (wicks + eps) compared with q = <<n, d>>, for an eps below
\* 1/n of a tick: the quotient is >= q exactly when body * d > n * wicks, and
\* <= q exactly when body * d <= n * wicks
BodyVsWicksGeq(v, q) == BodyOf(v) * q[2] > q[1] * WicksOf(v)

BodyVsWicksLeq(v, q) == BodyOf(v) * q[2] <= q[1] * WicksOf(v)

\* C11 as stated: for a bar of positive range that is not a doji, a wick label
\* is returned only if bodyRatio < bodyWickRatioShort, a Long Body label is
\* returned if bodyRatio >= bodyWickRatioLong, and a Mild label is returned if
\* bodyRatio is neither below the short nor at or above the long threshold.
C11_ChosenByBodyRatio ==
    (pc = "classified" /\ RangeOf(ohlc) > 0 /\ ~BodyRatioLeq(ohlc, cfg.doji_body_ratio)) =>
        /\ label \in WickLabels => BodyRatioLess(ohlc, cfg.body_wick_ratio_short)
        /\ ~BodyRatioLess(ohlc, cfg.body_wick_ratio_long) => label \in LongBodyLabels
        /\ (/\ ~BodyRatioLess(ohlc, cfg.body_wick_ratio_short)
            /\ BodyRatioLess(ohlc, cfg.body_wick_ratio_long)) => label \in MildLabels

\* C11 as amended: for a bar that is not labelled a doji the choice is made on
\* bodyVsWicks = |close - open| / (upperWick + lowerWick + eps): a Long Body
\* label exactly when bodyVsWicks >= bodyWickRatioLong, otherwise a wick label
\* exactly when bodyVsWicks <= bodyWickRatioShort, otherwise a Mild label.
C11_ChosenByBodyVsWicks ==
    (pc = "classified" /\ label # "Doji/SpinningTop") =>
        /\ label \in LongBodyLabels <=> BodyVsWicksGeq(ohlc, cfg.body_wick_ratio_long)
        /\ label \in WickLabels <=>
               /\ ~BodyVsWicksGeq(ohlc, cfg.body_wick_ratio_long)
               /\ BodyVsWicksLeq(ohlc, cfg.body_wick_ratio_short)
        /\ label \in MildLabels <=>
               /\ ~BodyVsWicksGeq(ohlc, cfg.body_wick_ratio_long)
               /\ ~BodyVsWicksLeq(ohlc, cfg.body_wick_ratio_short)

\* a bar inside its range, with bodyRatio below the long threshold, has been
\* labelled a Long Body
C11_Witness ==
    /\ pc = "classified"
    /\ cfg = Thresholds(HalfTickEps)
    /\ ohlc.l <= Min2(ohlc.o, ohlc.c) /\ Max2(ohlc.o, ohlc.c) <= ohlc.h
    /\ BodyRatioLess(ohlc, cfg.body_wick_ratio_long)
    /\ label \in LongBodyLabels

\* C12: a classified bar of positive range with bodyRatio <= dojiBodyRatio is
\* labelled Doji/SpinningTop, whatever the long-body and wick tests would say.
C12_DojiPrecedence ==
    (pc = "classified" /\ RangeOf(ohlc) > 0 /\ BodyRatioLeq(ohlc, cfg.doji_body_ratio)) =>
        label = "Doji/SpinningTop"

\* a bar that also passes the long-body test has been labelled a doji
C12_Witness ==
    /\ pc = "classified"
    /\ RangeOf(ohlc) > 0
    /\ BodyRatioLeq(ohlc, cfg.doji_body_ratio)
    /\ BodyVsWicksGeq(ohlc, cfg.body_wick_ratio_long)
    /\ label = "Doji/SpinningTop"

\* C13: under the default thresholds the bar open 10, high 12, low 9.5,
\* close 11.5 is labelled Mild Bullish.
C13_BasicBarIsMildBullish ==
    (pc = "classified" /\ ohlc = BasicClassifyBar /\ cfg = Thresholds(HalfTickEps)) =>
        label = "Mild Bullish"

\* that bar has been classified under the default thresholds
C13_Witness ==
    /\ pc = "classified"
    /\ ohlc = BasicClassifyBar
    /\ cfg = Thresholds(HalfTickEps)
    /\ label \in Labels

(***************************************************************************)
(* Properties of session resolution and classify_candles                   *)
(***************************************************************************)
\* the hour token of a timestamp: the number between the date/time separator
\* and the first ':', or -1 if there is no such number
HourToken(ts) == IF ts.tsep \in {"T", " "} /\ ts.hh >= 0 THEN ts.hh ELSE -1

\* the session table of the claim
SessionTable(h) ==
    CASE h \in 1..7 -> "AS"
      [] h \in 8..14 -> "LN"
      [] h \in 15..18 -> "NYAM"
      [] h \in 19..20 -> "NYL"
      [] h \in 21..23 -> "NYPM"
      [] OTHER -> "Unknown"

\* C14: classify_candles returns one record per input bar, in input order,
\* each with the session that the table gives for the hour token of the bar's
\* timestamp: a named session exactly for the hours 1..23, Unknown for hour 0,
\* for any other number and for a missing or non-numeric hour.
C14_SessionOfHourToken ==
    pc = "candles_done" =>
        /\ Len(candles) = Len(data)
        /\ \A i \in 1..Len(data) :
               /\ candles[i].timestamp = data[i].timestamp
               /\ candles[i].session = SessionTable(HourToken(data[i].timestamp))
               /\ candles[i].session # "Unknown" <=> HourToken(data[i].timestamp) \in 1..23

\* the three rows of tests::basic_classify have been classified: 02:00 is AS,
\* 09:30 is LN and 19:15 is NYL
C14_Witness ==
    /\ pc = "candles_done"
    /\ data = BasicClassifyRows
    /\ Len(candles) = 3
    /\ candles[1].session = "AS"
    /\ candles[2].session = "LN"
    /\ candles[3].session = "NYL"

(***************************************************************************)
(* Properties of the bars that are left out                                *)
(***************************************************************************)
SessionOf(r) == session_from_timestamp_enum(r.timestamp)

\* the bars of d that resolve to a named session, in the order of d
RECURSIVE NamedOnly(_)
NamedOnly(d) ==
    IF d = << >> THEN << >>
    ELSE IF SessionOf(Head(d)) = "Unknown" THEN NamedOnly(Tail(d))
    ELSE <<Head(d)>> \o NamedOnly(Tail(d))

\* positions of the parsable bars of data with calendar date c
BarsOfDate(c) == {i \in 1..Len(data) : Parsable(data[i]) /\ CalDate(data[i]) = c}

\* positions of the parsable bars of data in the month <<year, month>> of date c
BarsOfMonth(c) ==
    {i \in 1..Len(data) : /\ Parsable(data[i])
                          /\ CalDate(data[i])[1] = c[1]
                          /\ CalDate(data[i])[2] = c[2]}

SessionsEntered == pc \in {"session_loop", "daily_table", "weekly_table", "done"}

\* C15: at every point of aggregate_sessions the map is the one built from the
\* bars of a named session alone, so a bar of session Unknown neither creates
\* nor changes a SessionAgg; every row of the daily-session table has the date
\* part of a bar of a named session; and a bar of session Unknown whose
\* timestamp parses is counted in the daily bucket of its date, the weekly
\* bucket of its ISO week and the monthly bucket of its month.
C15_UnknownSessionBars ==
    /\ SessionsEntered => aggs = SessionFold(EmptyMap, NamedOnly(SubSeq(data, 1, sidx)))
    /\ pc = "done" =>
          /\ session_out = aggregate_sessions(NamedOnly(data))
          /\ \A n \in 1..Len(daily_table) :
                 \E i \in 1..Len(data) : /\ SessionOf(data[i]) # "Unknown"
                                         /\ DatePart(data[i].timestamp) = daily_table[n].date
          /\ \A i \in 1..Len(data) :
                 (Parsable(data[i]) /\ SessionOf(data[i]) = "Unknown") =>
                     /\ \E n \in 1..Len(period_out.daily) :
                            /\ period_out.daily[n].date = CalDate(data[i])
                            /\ period_out.daily[n].volume
                                   = SumVolume(data, BarsOfDate(CalDate(data[i])))
                     /\ \E n \in 1..Len(period_out.weekly) :
                            /\ Contains(period_out.weekly[n].members, CalDate(data[i]))
                            /\ period_out.weekly[n].volume
                                   = SumVolume(data, BarsOfWeek(data, WeekOf(data[i])))
                     /\ \E n \in 1..Len(period_out.monthly) :
                            /\ period_out.monthly[n].date = <<CalDate(data[i])[1], CalDate(data[i])[2]>>
                            /\ period_out.monthly[n].volume
                                   = SumVolume(data, BarsOfMonth(CalDate(data[i])))

\* an input of hour-00 bars only has gone through the pipeline: no SessionAgg,
\* no daily-session row, and a daily bucket holding the bars
C15_Witness ==
    /\ pc = "done"
    /\ Len(data) >= 2
    /\ \A i \in 1..Len(data) : Parsable(data[i]) /\ SessionOf(data[i]) = "Unknown"
    /\ session_out = << >>
    /\ daily_table = << >>
    /\ Len(period_out.daily) >= 1

(***************************************************************************)
(* Properties of the weekday table                                         *)
(***************************************************************************)
WorkingDays == {"Mon", "Tue", "Wed", "Thu", "Fri"}

\* positions of the parsable bars of data dated on the working day named w
BarsOfWeekday(w) ==
    {i \in 1..Len(data) :
        /\ Parsable(data[i])
        /\ weekday_to_string(WeekdayNum(Ndt(data[i]).year, Ndt(data[i]).month,
                                        Ndt(data[i]).day)) = w}

\* C16: the keys of the weekday map are among Mon..Fri at every moment; when
\* aggregate_period has returned, the volume of each weekday bucket is the
\* volume of the bars dated on that working day, so no Saturday or Sunday bar
\* is in it; and every parsable bar, weekend bars included, is counted in the
\* daily bucket of its date and in the monthly bucket of its month.
C16_WeekdayBucketsMonToFri ==
    /\ DOMAIN weekday_map \subseteq WorkingDays
    /\ PeriodReturned =>
          /\ \A n \in 1..Len(period_out.weekday) :
                 /\ period_out.weekday[n].date \in WorkingDays
                 /\ period_out.weekday[n].volume
                        = SumVolume(data, BarsOfWeekday(period_out.weekday[n].date))
          /\ \A i \in 1..Len(data) :
                 Parsable(data[i]) =>
                     /\ \E n \in 1..Len(period_out.daily) :
                            /\ period_out.daily[n].date = CalDate(data[i])
                            /\ period_out.daily[n].volume
                                   = SumVolume(data, BarsOfDate(CalDate(data[i])))
                     /\ \E n \in 1..Len(period_out.monthly) :
                            /\ period_out.monthly[n].date
                                   = <<CalDate(data[i])[1], CalDate(data[i])[2]>>
                            /\ period_out.monthly[n].volume
                                   = SumVolume(data, BarsOfMonth(CalDate(data[i])))

\* a Saturday bar and a working-day bar have been aggregated: the Saturday has
\* a daily bucket, and the weekday table has a bucket
C16_Witness ==
    /\ PeriodReturned
    /\ \E i \in 1..Len(data) :
           /\ IsWeekend(data[i])
           /\ \E n \in 1..Len(period_out.daily) : period_out.daily[n].date = CalDate(data[i])
    /\ \E j \in 1..Len(data) : ~IsWeekend(data[j])
    /\ Len(period_out.weekday) >= 1

(***************************************************************************)
(* Properties of unparsable bars                                           *)
(***************************************************************************)
\* d without its i-th element
RemoveAt(d, i) == SubSeq(d, 1, i - 1) \o SubSeq(d, i + 1, Len(d))

\* C17: when aggregate_period has returned, for every bar of the input whose
\* timestamp does not parse, the four tables and the three maps that hold the
\* week-to-month ownership and the month-relative week indices are those that
\* aggregate_period builds for the input without that bar.
C17_UnparsableBarHasNoEffect ==
    PeriodReturned =>
        \A i \in 1..Len(data) :
            ~Parsable(data[i]) =>
                /\ period_out = aggregate_period(RemoveAt(data, i))
                /\ PeriodState = PeriodFold(InitPeriodState, SortRefs(RemoveAt(data, i)))

\* an unparsable bar dated in May has been consumed before a parsable bar of
\* the same ISO week dated in June, and the week belongs to June
C17_Witness ==
    /\ PeriodReturned
    /\ \E i, j \in 1..Len(data) :
           /\ ~Parsable(data[i])
           /\ Parsable(data[j])
           /\ TsLess(data[i].timestamp, data[j].timestamp)
           /\ data[i].timestamp.m = 5
           /\ Ndt(data[j]).month = 6
    /\ Len(period_out.weekly) = 1
    /\ period_out.weekly[1].date[2] = 6

(***************************************************************************)
(* Properties of the daily-session table                                   *)
(***************************************************************************)
\* the calendar date written in the date text of a SessionAgg
DateOfText(k) == <<k[1], k[3], k[4]>>

\* positions of session_out holding a SessionAgg of calendar date c
SessionsOfDate(c) == {n \in 1..Len(session_out) : DateOfText(session_out[n].date) = c}

DatesOfSessions == {DateOfText(session_out[n].date) : n \in 1..Len(session_out)}

DayHigh(c) == SetMax({session_out[n].high : n \in SessionsOfDate(c)})

DayLow(c) == SetMin({session_out[n].low : n \in SessionsOfDate(c)})

\* C18: the daily-session table has one row for each calendar date of the
\* SessionAggs and no other row, and the day pattern of the row of a date is
\* the classification of: the open of a session of the date that no session
\* of the date precedes in the order AS, LN, NYAM, NYL, NYPM, the close of a
\* session that none follows in that order, the highest high and the lowest
\* low of the sessions of the date.
C18_DayPatternFromChronologicalSessions ==
    pc = "done" =>
        /\ Len(daily_table) = Cardinality(DatesOfSessions)
        /\ \A c \in DatesOfSessions :
               \E n \in 1..Len(daily_table) :
                   /\ DateOfText(daily_table[n].date) = c
                   /\ \E first, last \in SessionsOfDate(c) :
                          /\ \A j \in SessionsOfDate(c) :
                                 /\ SessionOrd(session_out[first].session)
                                        <= SessionOrd(session_out[j].session)
                                 /\ SessionOrd(session_out[j].session)
                                        <= SessionOrd(session_out[last].session)
                          /\ daily_table[n].day_candle_pattern
                                 = DefaultPattern([open |-> session_out[first].open,
                                                   high |-> DayHigh(c),
                                                   low |-> DayLow(c),
                                                   close |-> session_out[last].close])

\* the key by which the sessions of a date are sorted: date text, then code
SessionSortKey(v) == v.date \o <<SessionOrd(v.session)>>

WeekOfDay(v) == IsoWeek(v.date[1], v.date[2], v.date[3])

\* positions of the daily vector holding a day of ISO week w
DaysOfWeek(w) ==
    {n \in 1..Len(period_out.daily) : WeekOfDay(period_out.daily[n]) = w}

WeeksOfDays == {WeekOfDay(period_out.daily[n]) : n \in 1..Len(period_out.daily)}

\* the position of the earliest day of ISO week w
FirstDayOf(w) ==
    CHOOSE n \in DaysOfWeek(w) :
        \A j \in DaysOfWeek(w) :
            ~LexLess(period_out.daily[j].date, period_out.daily[n].date)

\* the position of the latest day of ISO week w
LastDayOf(w) ==
    CHOOSE n \in DaysOfWeek(w) :
        \A j \in DaysOfWeek(w) :
            ~LexLess(period_out.daily[n].date, period_out.daily[j].date)

\* C20: the weekly table has as many rows as the daily aggregates have ISO
\* (week-year, week-number) pairs, and each pair has a row with the open of
\* its earliest day, the close of its latest day, the highest daily high, the
\* lowest daily low and the classification of these four values.
C20_WeeklyRowPerIsoWeek ==
    pc = "done" =>
        /\ Len(weekly_table) = Cardinality(WeeksOfDays)
        /\ \A w \in WeeksOfDays :
               \E n \in 1..Len(weekly_table) :
                   LET row == weekly_table[n]
                       high == SetMax({period_out.daily[j].high : j \in DaysOfWeek(w)})
                       low == SetMin({period_out.daily[j].low : j \in DaysOfWeek(w)})
                   IN /\ row.week = w[2]
                      /\ row.open = period_out.daily[FirstDayOf(w)].open
                      /\ row.close = period_out.daily[LastDayOf(w)].close
                      /\ row.high = high
                      /\ row.low = low
                      /\ row.week_pattern
                             = DefaultPattern([open |-> row.open, high |-> high,
                                               low |-> low, close |-> row.close])

\* two ISO weeks have their rows, and one of them has two days whose opens
\* differ
C20_Witness ==
    /\ pc = "done"
    /\ Len(weekly_table) = 2
    /\ \E w \in WeeksOfDays :
           /\ Cardinality(DaysOfWeek(w)) = 2
           /\ period_out.daily[FirstDayOf(w)].open # period_out.daily[LastDayOf(w)].open

(***************************************************************************)
(* Properties of the vector aggregate_sessions returns                     *)
(***************************************************************************)
SessionsReturned == pc \in {"daily_table", "weekly_table", "done"}

\* the calendar date and the rank of the session code of a SessionAgg
DateSessionKey(v) == DateOfText(v.date) \o <<SessionOrd(v.session)>>

\* C21: the vector aggregate_sessions returns has no SessionAgg of session
\* Unknown, no two SessionAggs with the same calendar date and session, and
\* its elements are in ascending order of (calendar date, session code).
C21_OnePerDateSessionAscending ==
    SessionsReturned =>
        /\ \A n \in 1..Len(session_out) : session_out[n].session # "Unknown"
        /\ \A i, j \in 1..Len(session_out) :
               i < j => LexLess(DateSessionKey(session_out[i]),
                                DateSessionKey(session_out[j]))

(***************************************************************************)
(* The weekly table against the weekly buckets of aggregate_period         *)
(***************************************************************************)
\* the dates of the daily vector that lie in ISO week w
DatesOfWeek(w) == {period_out.daily[n].date : n \in DaysOfWeek(w)}

\* row is the row that aggregate_weekly_table builds for ISO week w
IsRowOfWeek(row, w) ==
    /\ row.week = w[2]
    /\ row.year = period_out.daily[FirstDayOf(w)].date[1]
    /\ row.month = period_out.daily[FirstDayOf(w)].date[2]

\* v is the weekly bucket that aggregate_period builds for ISO week w
IsBucketOfWeek(v, w) ==
    /\ v.date[1] = w[1]
    /\ SeqRange(v.members) # {}
    /\ SeqRange(v.members) \subseteq DatesOfWeek(w)

\* C22: for every ISO week of the input the weekly table has its row and
\* aggregate_period has its weekly bucket, the two have the same open, high,
\* low, close and volume, and the month of the row is the owning month of the
\* bucket's key.
C22_WeeklyRowEqualsWeeklyBucket ==
    pc = "done" =>
        \A w \in WeeksOfDays :
            \E n \in 1..Len(weekly_table), m \in 1..Len(period_out.weekly) :
                LET row == weekly_table[n]
                    v == period_out.weekly[m]
                IN /\ IsRowOfWeek(row, w)
                   /\ IsBucketOfWeek(v, w)
                   /\ row.open = v.open
                   /\ row.high = v.high
                   /\ row.low = v.low
                   /\ row.close = v.close
                   /\ row.volume = v.volume
                   /\ row.month = v.date[2]

(***************************************************************************)
(* Weekly buckets and ISO weeks across a year boundary                     *)
(***************************************************************************)
\* the ISO weeks of the parsable bars consumed so far
WeeksConsumed == {WeekOf(refs[i]) : i \in {j \in 1..idx : Parsable(refs[j])}}

\* the ISO weeks of the member dates of a weekly bucket
WeeksOfBucket(k) ==
    {IsoWeek(c[1], c[2], c[3]) : c \in SeqRange(weekly[k].members)}

\* C23: at every point of aggregate_period every weekly bucket holds dates of
\* one ISO week only, every ISO week consumed so far has its bucket, two
\* distinct ISO weeks have buckets with distinct keys, and the number of
\* weekly buckets is the number of distinct ISO weeks with a parsable bar;
\* the returned weekly vector has that many entries.
C23_WeeklyKeysInjective ==
    /\ \A k \in DOMAIN weekly : Cardinality(WeeksOfBucket(k)) = 1
    /\ \A w \in WeeksConsumed : \E k \in DOMAIN weekly : w \in WeeksOfBucket(k)
    /\ \A k1, k2 \in DOMAIN weekly : WeeksOfBucket(k1) = WeeksOfBucket(k2) => k1 = k2
    /\ Cardinality(DOMAIN weekly) = Cardinality(WeeksConsumed)
    /\ PeriodReturned =>
           /\ WeeksConsumed = WeeksOf(data)
           /\ Len(period_out.weekly) = Cardinality(WeeksOf(data))

\* ISO week 2025-W01 entered through Monday 2024-12-30 and Wednesday
\* 2025-01-01, and 2025-W52: both weeks are owned by December of week-year
\* 2025 and have the keys 2025-12-W1 and 2025-12-W2
C23_Witness ==
    /\ PeriodReturned
    /\ DOMAIN weekly = {<<2025, 12, 1>>, <<2025, 12, 2>>}
    /\ SeqRange(weekly[<<2025, 12, 1>>].members) = {<<2024, 12, 30>>, <<2025, 1, 1>>}
    /\ SeqRange(weekly[<<2025, 12, 2>>].members) = {<<2025, 12, 22>>}

(***************************************************************************)
(* Order and identity of the rows of the weekly table                      *)
(***************************************************************************)
\* the ISO weeks whose row (week number, year and month of the first day) is row
WeeksOfRow(row) == {w \in WeeksOfDays : IsRowOfWeek(row, w)}

\* C24: the rows of the weekly table are in chronological order of ISO week:
\* of two rows of different ISO weeks the one with the smaller pair
\* <<week-year, week-number>> comes first.
C24_RowsInIsoWeekOrder ==
    pc = "done" =>
        \A i, j \in 1..Len(weekly_table) :
            i < j =>
                \A wi \in WeeksOfRow(weekly_table[i]), wj \in WeeksOfRow(weekly_table[j]) :
                    wi # wj => LexLess(wi, wj)

\* C25: no two rows of the weekly table carry the same pair (Year, Week), and
\* every ISO week of the daily aggregates has a row whose Year is its
\* week-year and whose Week is its week-number.
C25_YearWeekIdentifiesIsoWeek ==
    pc = "done" =>
        /\ \A i, j \in 1..Len(weekly_table) :
               i # j => <<weekly_table[i].year, weekly_table[i].week>>
                           # <<weekly_table[j].year, weekly_table[j].week>>
        /\ \A w \in WeeksOfDays :
               \E n \in 1..Len(weekly_table) :
                   weekly_table[n].year = w[1] /\ weekly_table[n].week = w[2]

====
